---- MODULE Spec2Model ----
(***************************************************************************)
(* Model of src/Mirakurun/Program.ts: the in-memory store of programs      *)
(* (ProgramItem instances), its debounced write-back and its periodic GC.  *)
(*                                                                         *)
(* Time is the value of Date.now() in milliseconds.  The timers of the     *)
(* event loop are kept as sequences of deadlines, in arming order; a       *)
(* callback runs when the clock reaches its deadline, and the clock does   *)
(* not pass a deadline whose callback has not run.                         *)
(***************************************************************************)
EXTENDS Integers, Sequences, FiniteSets, TLC

----------------------------------------------------------------------------
(* Program constants *)

\* `return null` of get(): no ProgramItem.
Null == 0

\* typeof program.networkId === "undefined"
Undefined == -1

\* setTimeout(() => this._save(), 3000)
SaveDelay == 3000

\* 1000 * 60 * 15, the default of _programGCInterval
DefaultGCInterval == 1000 * 60 * 15

\* a Timeout object that is not (or no longer) scheduled
Inactive == -2

----------------------------------------------------------------------------
(* Bounds and inputs of the model *)

\* the clock stops advancing here
MaxTime == 7000

\* granularity of the clock: deadlines of the save timer fall on the grid
Step == SaveDelay \div 3

\* values of Date.now() at construction
BootTimes == {2000}

\* values of _.config.server.programGCInterval (0: not configured)
ConfigGCIntervals == {2000}

\* db.Program records.  Records 1..4 are also the data of the ProgramItem
\* instances 1..4 that producers hand to the store; instances 1 and 4 are
\* two instances with the same id.  Record 5 lacks networkId.
Data == <<
  [id |-> 1, networkId |-> 1, serviceId |-> 2, startAt |-> 1000, duration |-> 1000],
  [id |-> 2, networkId |-> 1, serviceId |-> 2, startAt |-> 2000, duration |-> 1000],
  [id |-> 3, networkId |-> 1, serviceId |-> 3, startAt |-> 0,    duration |-> 1000],
  [id |-> 1, networkId |-> 1, serviceId |-> 2, startAt |-> 2000, duration |-> 2000],
  [id |-> 5, networkId |-> Undefined, serviceId |-> 2, startAt |-> 3000, duration |-> 3000] >>

\* ProgramItem instances (by identity) that callers hold
Entries == {1, 2, 3, 4}

\* records that a persisted file may contain
Recs == {1, 2, 3, 4, 5}

\* longest persisted file read at construction, in SpecLoad
MaxFileLen == 2

\* the persisted files read at construction, in Spec: no file; two records
\* that are kept; two records with the same id; a record without networkId
\* and an expired record
BootFiles == {<<>>, <<1, 2>>, <<4, 1>>, <<5, 3>>}

\* arguments of get and exists: the ids of members and an id of no member
QIds == {1, 2, 5}

\* arguments of findByQuery
Queries == {[path |-> "id", eq |-> 1], [path |-> "data.serviceId", eq |-> 3]}

\* arguments of findConflicts
QNetworkIds == {1}
QServiceIds == {2, 3}
QWindows == {<<1000, 2000>>, <<1500, 2500>>}

----------------------------------------------------------------------------
VARIABLES
  items,          \* this._items: sequence of ProgramItem instances
  saveTimers,     \* pending timers whose callback is () => this._save()
  saveTimerId,    \* this._saveTimerId: deadline of the Timeout it refers to
  lastReq,        \* history: time of the last save() not yet written
  reqItems,       \* history: items at that save()
  burst,          \* history: save() calls since the last write (2: 2 or more)
  gcTimers,       \* pending timers whose callback is this._gc
  gcQueue,        \* sweep tasks waiting in the task queue
  programGCInterval, \* this._programGCInterval
  saved,          \* the records the persistence backend holds
  now,            \* Date.now()
  op              \* history: the operation that led to this state, its
                  \* arguments, Len(items) before it, and what it returned

vars == <<items, saveTimers, saveTimerId, lastReq, reqItems, burst,
          gcTimers, gcQueue, programGCInterval, saved, now, op>>

\* The part of the state that add, remove and save work on.
Store == [items |-> items, saveTimers |-> saveTimers,
          saveTimerId |-> saveTimerId, lastReq |-> lastReq,
          reqItems |-> reqItems, burst |-> burst]

----------------------------------------------------------------------------
(* Helpers *)

Range(s) == {s[k] : k \in 1..Len(s)}

Min(a, b) == IF a < b THEN a ELSE b

\* ProgramItem.id
Id(e) == Data[e].id

\* ProgramItem.data
data(e) == Data[e]

\* The instance that `new ProgramItem(program)` makes of a record.
EntryOf(program) == CHOOSE e \in Recs : Data[e] = program

\* Array.prototype.indexOf: first index of e (1-based), 0 for -1
RECURSIVE indexOfFrom(_, _, _)
indexOfFrom(s, e, k) ==
  IF k > Len(s) THEN 0
  ELSE IF s[k] = e THEN k
  ELSE indexOfFrom(s, e, k + 1)

indexOf(s, e) == indexOfFrom(s, e, 1)

\* removal that moves the last element into the gap
spliceSwap(s, index) ==
  [k \in 1..(Len(s) - 1) |-> IF k = index THEN s[Len(s)] ELSE s[k]]

\* Array.prototype.splice(index, 1)
splice(s, index) ==
  [k \in 1..(Len(s) - 1) |-> IF k < index THEN s[k] ELSE s[k + 1]]

\* clearTimeout(h): unschedules the timer h refers to, if it is pending
clearTimeout(ts, h) ==
  IF indexOf(ts, h) = 0 THEN ts ELSE splice(ts, indexOf(ts, h))

\* setTimeout(cb, delay) at time t
setTimeout(ts, t, delay) == Append(ts, t + delay)

----------------------------------------------------------------------------
(* Program *)

\* get(id)
RECURSIVE getFrom(_, _, _)
getFrom(its, id, i) ==
  IF i > Len(its) THEN Null
  ELSE IF Id(its[i]) = id THEN its[i]
  ELSE getFrom(its, id, i + 1)

\* get(id) whose scan starts at the second element
getSkipFirst(its, id) == getFrom(its, id, 2)

get(its, id) == getFrom(its, id, 1)

\* exists(id)
exists(its, id) == get(its, id) # Null

\* findByServiceId(serviceId)
RECURSIVE findByServiceIdFrom(_, _, _, _)
findByServiceIdFrom(its, i, acc, serviceId) ==
  IF i > Len(its) THEN acc
  ELSE findByServiceIdFrom(its, i + 1,
         IF data(its[i]).serviceId = serviceId THEN Append(acc, its[i]) ELSE acc,
         serviceId)

findByServiceId(its, serviceId) == findByServiceIdFrom(its, 1, <<>>, serviceId)

\* sift's test of one item against a query {path: eq}
matches(query, item) ==
  IF query.path = "id" THEN Id(item) = query.eq
  ELSE data(item).serviceId = query.eq

\* findByQuery(query): sift(query, this._items) returns the matching items
\* in a new array
findByQuery(its, query) == SelectSeq(its, LAMBDA x : matches(query, x))

\* save() that leaves the pending timer in place
saveNoClear(st, t) ==
  [st EXCEPT !.saveTimers = setTimeout(st.saveTimers, t, SaveDelay),
             !.saveTimerId = t + SaveDelay,
             !.lastReq = t,
             !.reqItems = st.items,
             !.burst = Min(st.burst + 1, 2)]

\* save()
save(st, t) ==
  [st EXCEPT !.saveTimers = setTimeout(clearTimeout(st.saveTimers, st.saveTimerId), t, SaveDelay),
             !.saveTimerId = t + SaveDelay,
             !.lastReq = t,
             !.reqItems = st.items,
             !.burst = Min(st.burst + 1, 2)]

\* add(item) without the test of get(item.id)
addNoCheck(st, item, t) ==
  save([st EXCEPT !.items = Append(st.items, item)], t)

\* add(item) with save() after the if
addSaveAlways(st, item, t) ==
  IF get(st.items, Id(item)) = Null
  THEN save([st EXCEPT !.items = Append(st.items, item)], t)
  ELSE save(st, t)

\* add(item) without save()
addNoSave(st, item, t) ==
  IF get(st.items, Id(item)) = Null
  THEN [st EXCEPT !.items = Append(st.items, item)]
  ELSE st

\* add(item)
add(st, item, t) ==
  IF get(st.items, Id(item)) = Null
  THEN save([st EXCEPT !.items = Append(st.items, item)], t)
  ELSE st

\* remove(item) that looks the member up by id
removeById(st, item, t) ==
  LET index == indexOf(st.items, get(st.items, Id(item)))
  IN IF index # 0
     THEN save([st EXCEPT !.items = splice(st.items, index)], t)
     ELSE st

\* remove(item) without save()
removeNoSave(st, item, t) ==
  LET index == indexOf(st.items, item)
  IN IF index # 0
     THEN [st EXCEPT !.items = splice(st.items, index)]
     ELSE st

\* remove(item)
remove(st, item, t) ==
  LET index == indexOf(st.items, item)
  IN IF index # 0
     THEN save([st EXCEPT !.items = splice(st.items, index)], t)
     ELSE st

\* static remove(item) that does not reach the store
staticRemoveNoop(st, item, t) == st

\* static remove(item)
staticRemove(st, item, t) == remove(st, item, t)

\* ProgramItem.remove(): the entry's self-removal
itemRemove(st, item, t) == staticRemove(st, item, t)

\* new ProgramItem(program, true): the instance registers itself
newProgramItem(st, program, t) == add(st, EntryOf(program), t)

\* _save(): the records handed to db.savePrograms
_save(its) == [k \in 1..Len(its) |-> data(its[k])]

\* the test of the sweep with >=
expiredGe(t, program) == t >= (program.startAt + program.duration)

\* the test of the sweep with the comparison turned round
expiredInverted(t, program) == t < (program.startAt + program.duration)

\* now > (program.startAt + program.duration), of the sweep
expired(t, program) == t > (program.startAt + program.duration)

\* the tests of _load with >=
dropsRecordGe(t, program) ==
  \/ program.networkId = Undefined
  \/ t >= (program.startAt + program.duration)

\* the two tests of _load that drop a record
dropsRecord(t, program) ==
  \/ program.networkId = Undefined
  \/ t > (program.startAt + program.duration)

\* db.loadPrograms().forEach(...) of _load, from record k on
RECURSIVE loadFrom(_, _, _, _, _)
loadFrom(st, programs, k, dropped, t) ==
  IF k > Len(programs) THEN [st |-> st, dropped |-> dropped]
  ELSE IF dropsRecord(t, programs[k])
       THEN loadFrom(st, programs, k + 1, TRUE, t)
       ELSE loadFrom(newProgramItem(st, programs[k], t), programs, k + 1, dropped, t)

\* _load() without the save() of dropped records
_loadNoSave(st, programs, t) ==
  loadFrom(st, programs, 1, FALSE, t).st

\* _load()
_load(st, programs, t) ==
  LET r == loadFrom(st, programs, 1, FALSE, t)
  IN IF r.dropped THEN save(r.st, t) ELSE r.st

\* this._items.forEach(...) of the sweep: the length is read once, an index
\* that is no longer present is skipped, and each element is read when its
\* index is reached.  The store reached so far (st0) is bound to its value
\* st before the loop body reads it.
RECURSIVE gcForEach(_, _, _, _, _)
gcForEach(st0, k, len, t, count) ==
  CHOOSE r \in
    {IF k > len THEN [st |-> st, count |-> count]
     ELSE IF k > Len(st.items) THEN gcForEach(st, k + 1, len, t, count)
     ELSE IF expired(t, data(st.items[k]))
          THEN gcForEach(itemRemove(st, st.items[k], t), k + 1, len, t, count + 1)
          ELSE gcForEach(st, k + 1, len, t, count) : st \in {st0}} : TRUE

\* the sweep with a count of the entries it visited
gcSweepCountVisited(st, t) ==
  [st |-> gcForEach(st, 1, Len(st.items), t, 0).st, count |-> Len(st.items)]

\* the task that _gc() queues, up to the setTimeout
gcSweep(st, t) == gcForEach(st, 1, Len(st.items), t, 0)

\* _.config.server.programGCInterval || 1000 * 60 * 15
gcInterval(config) == IF config # 0 THEN config ELSE DefaultGCInterval

\* the test of findConflicts with a closed interval
conflictsClosed(item, networkId, serviceId, start, end) ==
  /\ data(item).networkId = networkId
  /\ data(item).serviceId = serviceId
  /\ data(item).startAt >= start
  /\ data(item).startAt <= end

\* the test of findConflicts
conflicts(item, networkId, serviceId, start, end) ==
  /\ data(item).networkId = networkId
  /\ data(item).serviceId = serviceId
  /\ data(item).startAt >= start
  /\ data(item).startAt < end

\* findConflicts(networkId, serviceId, start, end)
RECURSIVE findConflictsFrom(_, _, _, _, _, _, _)
findConflictsFrom(its, i, acc, networkId, serviceId, start, end) ==
  IF i > Len(its) THEN acc
  ELSE findConflictsFrom(its, i + 1,
         IF conflicts(its[i], networkId, serviceId, start, end)
         THEN Append(acc, its[i]) ELSE acc,
         networkId, serviceId, start, end)

findConflicts(its, networkId, serviceId, start, end) ==
  findConflictsFrom(its, 1, <<>>, networkId, serviceId, start, end)

----------------------------------------------------------------------------
(* The persisted files of up to MaxFileLen records, without repetition *)

Files ==
  {f \in UNION {[1..n -> Recs] : n \in 0..MaxFileLen} :
     \A i, j \in 1..Len(f) : i # j => f[i] # f[j]}

FileRecords(f) == [k \in 1..Len(f) |-> Data[f[k]]]

EmptyStore ==
  [items |-> <<>>, saveTimers |-> <<>>, saveTimerId |-> Inactive,
   lastReq |-> Inactive, reqItems |-> <<>>, burst |-> 0]

NoRet == <<>>

SetStore(st) ==
  /\ items' = st.items
  /\ saveTimers' = st.saveTimers
  /\ saveTimerId' = st.saveTimerId
  /\ lastReq' = st.lastReq
  /\ reqItems' = st.reqItems
  /\ burst' = st.burst

StoreVars == <<items, saveTimers, saveTimerId, lastReq, reqItems, burst>>

\* the state when the constructor returns: _load(), then the GC timer
Constructed(files) ==
  \E f \in files, t \in BootTimes, config \in ConfigGCIntervals :
    LET st == _load(EmptyStore, FileRecords(f), t)
    IN /\ items = st.items
       /\ saveTimers = st.saveTimers
       /\ saveTimerId = st.saveTimerId
       /\ lastReq = st.lastReq
       /\ reqItems = st.reqItems
       /\ burst = st.burst
       /\ programGCInterval = gcInterval(config)
       /\ gcTimers = setTimeout(<<>>, t, gcInterval(config))
       /\ gcQueue = 0
       /\ saved = FileRecords(f)
       /\ now = t
       /\ op = [name |-> "constructor", args |-> <<>>, pre |-> 0, ret |-> NoRet]

Init == Constructed(BootFiles)

\* a producer calls add(e)
Add(e) ==
  /\ SetStore(add(Store, e, now))
  /\ op' = [name |-> "add", args |-> <<e>>, pre |-> Len(items), ret |-> NoRet]
  /\ UNCHANGED <<gcTimers, gcQueue, programGCInterval, saved, now>>

\* a caller calls remove(e)
Remove(e) ==
  /\ SetStore(remove(Store, e, now))
  /\ op' = [name |-> "remove", args |-> <<e>>, pre |-> Len(items), ret |-> NoRet]
  /\ UNCHANGED <<gcTimers, gcQueue, programGCInterval, saved, now>>

\* a caller calls e.remove()
ItemRemove(e) ==
  /\ SetStore(itemRemove(Store, e, now))
  /\ op' = [name |-> "itemRemove", args |-> <<e>>, pre |-> Len(items), ret |-> NoRet]
  /\ UNCHANGED <<gcTimers, gcQueue, programGCInterval, saved, now>>

\* a caller calls save()
Save ==
  /\ SetStore(save(Store, now))
  /\ op' = [name |-> "save", args |-> <<>>, pre |-> 0, ret |-> NoRet]
  /\ UNCHANGED <<gcTimers, gcQueue, programGCInterval, saved, now>>

\* the save timer k is due: () => this._save()
SaveFire(k) ==
  /\ k \in 1..Len(saveTimers)
  /\ saveTimers[k] <= now
  /\ saveTimers' = splice(saveTimers, k)
  /\ saveTimerId' = IF saveTimerId = saveTimers[k] THEN Inactive ELSE saveTimerId
  /\ saved' = _save(items)
  /\ lastReq' = Inactive
  /\ reqItems' = <<>>
  /\ burst' = 0
  /\ op' = [name |-> "_save", args |-> <<burst>>, pre |-> 0, ret |-> NoRet]
  /\ UNCHANGED <<items, gcTimers, gcQueue, programGCInterval, now>>

\* _gc() that runs the sweep in the timer callback
GcFireInline(k) ==
  /\ k \in 1..Len(gcTimers)
  /\ gcTimers[k] <= now
  /\ LET r == gcSweep(Store, now)
     IN /\ SetStore(r.st)
        /\ op' = [name |-> "_gc", args |-> <<>>, pre |-> 0, ret |-> NoRet]
  /\ gcTimers' = setTimeout(splice(gcTimers, k), now, programGCInterval)
  /\ UNCHANGED <<gcQueue, programGCInterval, saved, now>>

\* the GC timer k is due: _gc() hands the sweep to the task queue
GcFire(k) ==
  /\ k \in 1..Len(gcTimers)
  /\ gcTimers[k] <= now
  /\ gcTimers' = splice(gcTimers, k)
  /\ gcQueue' = gcQueue + 1
  /\ op' = [name |-> "_gc", args |-> <<>>, pre |-> 0, ret |-> NoRet]
  /\ UNCHANGED <<StoreVars, programGCInterval, saved, now>>

\* the sweep that arms the next GC timer only after a removal
GcRunRearmIfRemoved ==
  /\ gcQueue > 0
  /\ LET r == gcSweep(Store, now)
     IN /\ SetStore(r.st)
        /\ op' = [name |-> "sweep", args |-> <<r.count>>, pre |-> Len(items), ret |-> NoRet]
        /\ gcTimers' = IF r.count > 0
                       THEN setTimeout(gcTimers, now, programGCInterval)
                       ELSE gcTimers
  /\ gcQueue' = gcQueue - 1
  /\ UNCHANGED <<programGCInterval, saved, now>>

\* the task queue runs the sweep
GcRun ==
  /\ gcQueue > 0
  /\ LET r == gcSweep(Store, now)
     IN /\ SetStore(r.st)
        /\ op' = [name |-> "sweep", args |-> <<r.count>>, pre |-> Len(items), ret |-> NoRet]
  /\ gcQueue' = gcQueue - 1
  /\ gcTimers' = setTimeout(gcTimers, now, programGCInterval)
  /\ UNCHANGED <<programGCInterval, saved, now>>

\* a caller calls findConflicts(networkId, serviceId, start, end)
FindConflicts(networkId, serviceId, w) ==
  /\ op' = [name |-> "findConflicts",
            args |-> <<networkId, serviceId, w[1], w[2]>>, pre |-> 0,
            ret |-> findConflicts(items, networkId, serviceId, w[1], w[2])]
  /\ UNCHANGED <<StoreVars, gcTimers, gcQueue, programGCInterval, saved, now>>

ReadFrame == <<StoreVars, gcTimers, gcQueue, programGCInterval, saved, now>>

\* a caller calls get(id)
Get(id) ==
  /\ op' = [name |-> "get", args |-> <<id>>, pre |-> 0, ret |-> <<get(items, id)>>]
  /\ UNCHANGED ReadFrame

\* a caller calls exists(id)
Exists(id) ==
  /\ op' = [name |-> "exists", args |-> <<id>>, pre |-> 0, ret |-> <<exists(items, id)>>]
  /\ UNCHANGED ReadFrame

\* findByServiceId that filters this._items in place
FindByServiceIdInPlace(serviceId) ==
  /\ op' = [name |-> "findByServiceId", args |-> <<serviceId>>, pre |-> 0,
            ret |-> findByServiceId(items, serviceId)]
  /\ items' = findByServiceId(items, serviceId)
  /\ UNCHANGED <<saveTimers, saveTimerId, lastReq, reqItems, burst,
                 gcTimers, gcQueue, programGCInterval, saved, now>>

\* a caller calls findByServiceId(serviceId)
FindByServiceId(serviceId) ==
  /\ op' = [name |-> "findByServiceId", args |-> <<serviceId>>, pre |-> 0,
            ret |-> findByServiceId(items, serviceId)]
  /\ UNCHANGED ReadFrame

\* a caller calls findByQuery(query)
FindByQuery(query) ==
  /\ op' = [name |-> "findByQuery", args |-> <<query.eq>>, pre |-> 0,
            ret |-> findByQuery(items, query)]
  /\ UNCHANGED ReadFrame

Deadlines == Range(saveTimers) \cup Range(gcTimers)

\* the clock advances, up to the next deadline
Tick ==
  /\ now < MaxTime
  /\ \A d \in Deadlines : d > now
  /\ now' = IF \E d \in Deadlines : d < now + Step
            THEN CHOOSE d \in Deadlines : \A d2 \in Deadlines : d <= d2
            ELSE now + Step
  /\ op' = [name |-> "tick", args |-> <<>>, pre |-> 0, ret |-> NoRet]
  /\ UNCHANGED <<StoreVars, gcTimers, gcQueue, programGCInterval, saved>>

Next ==
  \/ \E e \in Entries : Add(e)
  \/ \E e \in Entries : Remove(e)
  \/ \E e \in Entries : ItemRemove(e)
  \/ Save
  \/ \E k \in 1..Len(saveTimers) : SaveFire(k)
  \/ \E k \in 1..Len(gcTimers) : GcFire(k)
  \/ GcRun
  \/ \E n \in QNetworkIds, s \in QServiceIds, w \in QWindows : FindConflicts(n, s, w)
  \/ Tick

Spec == Init /\ [][Next]_vars

----------------------------------------------------------------------------
(* The store over unbounded time.  From MaxTime on every record of Data    *)
(* has startAt + duration in the past, and what the program does depends   *)
(* on the clock only through the time left to each deadline.  The clock    *)
(* is then kept where it is and the deadlines (and the time of the last    *)
(* save() request) are moved towards it instead.                           *)

Shift(t, delta) == IF t = Inactive THEN Inactive ELSE t - delta

HorizonTick ==
  /\ now >= MaxTime
  /\ \A r \in Recs : now > Data[r].startAt + Data[r].duration
  /\ Deadlines # {}
  /\ \A d \in Deadlines : d > now
  /\ LET next == CHOOSE d \in Deadlines : \A d2 \in Deadlines : d <= d2
         delta == IF next < now + Step THEN next - now ELSE Step
     IN /\ saveTimers' = [k \in 1..Len(saveTimers) |-> saveTimers[k] - delta]
        /\ gcTimers' = [k \in 1..Len(gcTimers) |-> gcTimers[k] - delta]
        /\ saveTimerId' = Shift(saveTimerId, delta)
        /\ lastReq' = Shift(lastReq, delta)
  /\ op' = [name |-> "tick", args |-> <<>>, pre |-> 0, ret |-> NoRet]
  /\ UNCHANGED <<items, reqItems, burst, gcQueue, programGCInterval, saved, now>>

\* the programs.json files and the callers' entries of the store that is
\* followed over unbounded time
LiveFiles == {<<1, 2>>, <<5, 3>>}
LiveEntries == {2, 3}

InitLive == Constructed(LiveFiles)

NextLive ==
  \/ \E e \in LiveEntries : Add(e)
  \/ \E e \in LiveEntries : Remove(e)
  \/ Save
  \/ \E k \in 1..Len(saveTimers) : SaveFire(k)
  \/ \E k \in 1..Len(gcTimers) : GcFire(k)
  \/ GcRun
  \/ Tick
  \/ HorizonTick

\* the clock advances, due timers fire, the task queue runs its tasks
SpecLive ==
  /\ InitLive
  /\ [][NextLive]_vars
  /\ WF_vars(Tick \/ HorizonTick)
  /\ WF_vars(\E k \in 1..Len(saveTimers) : SaveFire(k))
  /\ WF_vars(\E k \in 1..Len(gcTimers) : GcFire(k))
  /\ WF_vars(GcRun)

----------------------------------------------------------------------------
(* The callers' operations, reads included, before any timer is due *)

NextQuery ==
  \/ \E e \in Entries : Add(e)
  \/ \E e \in Entries : Remove(e)
  \/ \E e \in Entries : ItemRemove(e)
  \/ Save
  \/ \E id \in QIds : Get(id)
  \/ \E id \in QIds : Exists(id)
  \/ \E sid \in QServiceIds : FindByServiceId(sid)
  \/ \E q \in Queries : FindByQuery(q)
  \/ \E n \in QNetworkIds, sid \in QServiceIds, w \in QWindows : FindConflicts(n, sid, w)

SpecQuery == Init /\ [][NextQuery]_vars

----------------------------------------------------------------------------
(* The store left to its timers after the load of any persisted file *)

InitLoad == Constructed(Files)

NextLoad ==
  \/ \E k \in 1..Len(saveTimers) : SaveFire(k)
  \/ \E k \in 1..Len(gcTimers) : GcFire(k)
  \/ GcRun
  \/ Tick

SpecLoad == InitLoad /\ [][NextLoad]_vars

----------------------------------------------------------------------------
(* static getProgramId.  Strings are sequences of characters: the digits   *)
(* 0..9 and Dot.  A Number that holds an integer is the sequence of its    *)
(* decimal digits, so that values beyond 2^31 can be told apart.           *)

\* the character "."
Dot == 10

\* 2^53: up to here every integer is a Number
Two53 == <<9, 0, 0, 7, 1, 9, 9, 2, 5, 4, 7, 4, 0, 9, 9, 2>>

\* arguments of getProgramId
IdNetworkIds == {0, 1, 32736, 900718, 900720}
IdServiceIds == {0, 1, 11, 1024, 99999}
IdEventIds == {0, 1, 11, 40085, 99999}

\* String(n) of a non-negative integer: networkId + "..."
RECURSIVE digitsOf(_)
digitsOf(n) == IF n < 10 THEN <<n>> ELSE Append(digitsOf(n \div 10), n % 10)

\* (x / 100000).toFixed(5) with the fraction digits not padded to 5 places
toFixed5NoPad(x) ==
  digitsOf(x \div 100000) \o <<Dot>> \o digitsOf(x % 100000)

\* (x / 100000).toFixed(5): the integer part, ".", and the integer nearest
\* to the fraction times 10^5, which is x % 100000, in 5 places
toFixed5(x) ==
  LET n == x % 100000
  IN digitsOf(x \div 100000) \o <<Dot>> \o
     <<(n \div 10000) % 10, (n \div 1000) % 10, (n \div 100) % 10,
       (n \div 10) % 10, n % 10>>

\* .slice(2)
slice2(str) == SubSeq(str, 3, Len(str))

\* the digits that parseInt(str, 10) reads: up to the first other character
RECURSIVE digitPrefix(_)
digitPrefix(str) ==
  IF str = <<>> \/ Head(str) = Dot THEN <<>>
  ELSE <<Head(str)>> \o digitPrefix(Tail(str))

\* the integer that a digit string denotes: no leading zeros
RECURSIVE stripZeros(_)
stripZeros(d) ==
  IF Len(d) > 1 /\ Head(d) = 0 THEN stripZeros(Tail(d)) ELSE d

\* a > b for integers given by their digits
RECURSIVE greaterFrom(_, _, _)
greaterFrom(a, b, k) ==
  IF k > Len(a) THEN FALSE
  ELSE IF a[k] # b[k] THEN a[k] > b[k]
  ELSE greaterFrom(a, b, k + 1)

greater(a, b) ==
  IF Len(a) # Len(b) THEN Len(a) > Len(b) ELSE greaterFrom(a, b, 1)

\* d + 1
RECURSIVE inc(_)
inc(d) ==
  IF d = <<>> THEN <<1>>
  ELSE IF d[Len(d)] < 9 THEN [d EXCEPT ![Len(d)] = @ + 1]
  ELSE Append(inc(SubSeq(d, 1, Len(d) - 1)), 0)

\* the Number nearest to the integer d, for d < 2^54: above 2^53 only the
\* even integers are Numbers, and an odd integer goes to the neighbour
\* that is a multiple of 4 (round half to even)
toNumber(d) ==
  LET last == d[Len(d)]
      mod4 == (10 * d[Len(d) - 1] + last) % 4
  IN IF ~greater(d, Two53) THEN d
     ELSE IF last % 2 = 0 THEN d
     ELSE IF mod4 = 1 THEN [d EXCEPT ![Len(d)] = last - 1]
     ELSE inc(d)

\* parseInt(str, 10)
parseInt(str) == toNumber(stripZeros(digitPrefix(str)))

\* static getProgramId(networkId, serviceId, eventId)
getProgramId(networkId, serviceId, eventId) ==
  parseInt(digitsOf(networkId) \o slice2(toFixed5(serviceId))
                              \o slice2(toFixed5(eventId)))

\* a caller calls Program.getProgramId(networkId, serviceId, eventId)
GetProgramId(networkId, serviceId, eventId) ==
  /\ op' = [name |-> "getProgramId",
            args |-> <<networkId, serviceId, eventId>>, pre |-> 0,
            ret |-> getProgramId(networkId, serviceId, eventId)]
  /\ UNCHANGED <<StoreVars, gcTimers, gcQueue, programGCInterval, saved, now>>

InitId == Constructed({<<>>})

NextId ==
  \E n \in IdNetworkIds, sid \in IdServiceIds, e \in IdEventIds :
    GetProgramId(n, sid, e)

SpecId == InitId /\ [][NextId]_vars

----------------------------------------------------------------------------
(* The store after the load of any persisted file when nothing changes     *)
(* items any more: no caller acts, and the task queue runs a sweep only    *)
(* when the sweep finds nothing to remove.  The clock advances and due     *)
(* timers fire.                                                            *)

IdleGcRun == GcRun /\ items' = items

NextIdle ==
  \/ \E k \in 1..Len(saveTimers) : SaveFire(k)
  \/ \E k \in 1..Len(gcTimers) : GcFire(k)
  \/ IdleGcRun
  \/ Tick

SpecIdle ==
  /\ InitLoad
  /\ [][NextIdle]_vars
  /\ WF_vars(Tick)
  /\ WF_vars(\E k \in 1..Len(saveTimers) : SaveFire(k))
  /\ WF_vars(\E k \in 1..Len(gcTimers) : GcFire(k))

----------------------------------------------------------------------------
(* Properties *)

EndOf(e) == Data[e].startAt + Data[e].duration

RecordsOf(its) == [k \in 1..Len(its) |-> Data[its[k]]]

Without(its, e) == SelectSeq(its, LAMBDA x : x # e)

SaveArmedAt(t) == saveTimers = <<t + SaveDelay>> /\ saveTimerId = t + SaveDelay

\* C1: after a GC sweep has run at time T (= now), no entry with
\* startAt + duration < T remains in items.
C1_SweepLeavesNoExpired ==
  op.name = "sweep" => \A k \in 1..Len(items) : ~(EndOf(items[k]) < now)

\* C2: a GC sweep at time T removes no entry with startAt + duration >= T,
\* and the survivors are the same instances in the same relative order.
C2_SweepKeepsUnexpired ==
  [][op'.name = "sweep" =>
       /\ \A k \in 1..Len(items) :
            EndOf(items[k]) >= now => items[k] \in Range(items')
       /\ items' = SelectSeq(items, LAMBDA x : x \in Range(items'))]_vars

\* a sweep ran that removed an entry and kept one whose end is exactly T
C2_Witness ==
  /\ op.name = "sweep"
  /\ op.args[1] >= 1
  /\ \E k \in 1..Len(items) : EndOf(items[k]) = now

\* C3: no two entries of items have the same id.
C3_UniqueIds ==
  \A i, j \in 1..Len(items) : Id(items[i]) = Id(items[j]) => i = j

\* add(4) was called while instance 1, which has the same id, was a member
C3_Witness ==
  /\ op.name = "add"
  /\ op.args = <<4>>
  /\ 1 \in Range(items)

\* C4: add(e) with e's id present changes neither items nor the save timer;
\* otherwise it appends e as the last element and arms the save timer.
C4_AddNoOpOrAppend ==
  [][op'.name = "add" =>
       LET e == op'.args[1]
       IN IF \E k \in 1..Len(items) : Id(items[k]) = Id(e)
          THEN UNCHANGED <<items, saveTimers, saveTimerId>>
          ELSE /\ items' = Append(items, e)
               /\ saveTimers' = <<now + SaveDelay>>
               /\ saveTimerId' = now + SaveDelay]_vars

\* add(1) was called while instance 4 (same id) was a member, with a save
\* timer pending that was armed earlier
C4_Witness ==
  /\ op.name = "add"
  /\ op.args = <<1>>
  /\ op.pre = Len(items)
  /\ 4 \in Range(items)
  /\ saveTimers # <<>>
  /\ lastReq < now

\* C5: remove(e) of an instance that is not a member changes neither items
\* nor the save timer, even if a member has e's id; remove(e) of a member
\* removes exactly that instance and arms the save timer.
C5_RemoveByInstance ==
  [][op'.name = "remove" =>
       LET e == op'.args[1]
       IN IF e \notin Range(items)
          THEN UNCHANGED <<items, saveTimers, saveTimerId>>
          ELSE /\ items' = Without(items, e)
               /\ Len(items') = Len(items) - 1
               /\ saveTimers' = <<now + SaveDelay>>
               /\ saveTimerId' = now + SaveDelay]_vars

\* remove(4) was called while instance 1 (same id) was a member
C5_Witness ==
  /\ op.name = "remove"
  /\ op.args = <<4>>
  /\ op.pre = Len(items)
  /\ 1 \in Range(items)

\* C6: for a member e, the entry's self-removal leaves the store in the
\* state that remove(e) leads to: the same items, the save timer armed.
C6_SelfRemovalAsRemove ==
  [][(op'.name = "itemRemove" /\ op'.args[1] \in Range(items)) =>
       LET e == op'.args[1]
           r == remove(Store, e, now)
       IN /\ items' = r.items
          /\ saveTimers' = r.saveTimers
          /\ saveTimerId' = r.saveTimerId
          /\ items' = Without(items, e)
          /\ saveTimers' = <<now + SaveDelay>>
          /\ saveTimerId' = now + SaveDelay]_vars

\* a member removed itself
C6_Witness ==
  /\ op.name = "itemRemove"
  /\ op.pre = Len(items) + 1
  /\ op.args[1] \notin Range(items)
  /\ SaveArmedAt(now)

\* C7: at most one save timer is pending; while a request is not yet
\* written, the one pending timer is due 3000 ms after the last request;
\* a write happens exactly 3000 ms after the last request, carries the
\* items as of that request, and leaves no timer pending.
C7_Debounce ==
  /\ [](Len(saveTimers) <= 1)
  /\ [](lastReq # Inactive => saveTimers = <<lastReq + SaveDelay>>)
  /\ [](lastReq = Inactive => saveTimers = <<>>)
  /\ [][op'.name = "_save" =>
          /\ lastReq # Inactive
          /\ now = lastReq + SaveDelay
          /\ saved' = RecordsOf(reqItems)
          /\ saveTimers' = <<>>]_vars

\* a write happened after a burst of two or more requests
C7_Witness ==
  /\ op.name = "_save"
  /\ op.args[1] = 2
  /\ saved # <<>>

\* C8: when no save timer is pending, the persisted records are
\* items.map(data); every write persists the whole items sequence.
C8_SnapshotMatches ==
  /\ [](saveTimers = <<>> => saved = RecordsOf(items))
  /\ [][op'.name = "_save" => saved' = RecordsOf(items)]_vars

\* a write of two or more records happened and no timer is pending
C8_Witness ==
  /\ op.name = "_save"
  /\ saveTimers = <<>>
  /\ Len(saved) >= 2

\* C9: findConflicts returns exactly the members with the given networkId
\* and serviceId and start <= startAt < end, in store order, and changes
\* neither items nor the save timer.
C9_FindConflicts ==
  [][op'.name = "findConflicts" =>
       LET a == op'.args
       IN /\ op'.ret = SelectSeq(items, LAMBDA x :
                         /\ Data[x].networkId = a[1]
                         /\ Data[x].serviceId = a[2]
                         /\ a[3] <= Data[x].startAt
                         /\ Data[x].startAt < a[4])
          /\ UNCHANGED <<items, saveTimers, saveTimerId>>]_vars

\* findConflicts(1, 2, 1000, 2000) over a member with startAt = 1000 and a
\* member with startAt = 2000 returned the first only
C9_Witness ==
  /\ op.name = "findConflicts"
  /\ op.args = <<1, 2, 1000, 2000>>
  /\ {1, 2} \subseteq Range(items)
  /\ op.ret = <<1>>

DroppedAtLoad(program, t) ==
  \/ program.networkId = Undefined
  \/ t > program.startAt + program.duration

\* C10: when the constructor returns, items has no entry of a persisted
\* record that lacks networkId or has now > startAt + duration, and has
\* the entry of every other record whose id no earlier kept record has.
C10_LoadDrops ==
  op.name = "constructor" =>
    /\ \A k \in 1..Len(saved) :
         DroppedAtLoad(saved[k], now) =>
           ~\E j \in 1..Len(items) : Data[items[j]] = saved[k]
    /\ \A k \in 1..Len(saved) :
         (/\ ~DroppedAtLoad(saved[k], now)
          /\ \A i \in 1..(k - 1) :
               ~DroppedAtLoad(saved[i], now) => saved[i].id # saved[k].id)
         => \E j \in 1..Len(items) : Data[items[j]] = saved[k]

\* a file with an expired record and a record that ends exactly at boot
\* time was loaded: the first is dropped, the second is a member
C10_Witness ==
  /\ op.name = "constructor"
  /\ saved = <<Data[3], Data[1]>>
  /\ items = <<1>>
  /\ EndOf(1) = now

\* C11: when load drops a record, a save is pending when the constructor
\* returns; with no further change of items a write follows, it is the only
\* one, and its records are items.map(data) with none of the dropped records.
C11_LoadSelfHeal ==
  /\ [](op.name = "constructor" =>
         ((\E k \in 1..Len(saved) : DroppedAtLoad(saved[k], now))
            => saveTimers = <<now + SaveDelay>>))
  /\ ((\E k \in 1..Len(saved) : DroppedAtLoad(saved[k], now))
         => <>(op.name = "_save"))
  /\ [][op'.name = "_save" =>
          /\ saved' = RecordsOf(items)
          /\ \A k \in 1..Len(saved) :
               DroppedAtLoad(saved[k], now - SaveDelay) =>
                 ~\E j \in 1..Len(saved') : saved'[j] = saved[k]
          /\ saveTimers' = <<>>]_vars
  /\ [][saveTimers = <<>> => saveTimers' = <<>>]_vars

\* the write after a load that dropped every record of a file: items never
\* changes here and a boot from an empty file arms no timer
C11_Witness ==
  /\ op.name = "_save"
  /\ items = <<>>
  /\ saved = <<>>

\* C12 as claimed: for networkId >= 0 and serviceId, eventId in
\* [0, 100000), two calls of getProgramId with different triples give
\* different ids (and with the same triple the same id).
C12_InjectiveAnyNetworkId ==
  [][(op.name = "getProgramId" /\ op'.name = "getProgramId") =>
       (op.args = op'.args <=> op.ret = op'.ret)]_vars

\* C12 amended: the same for networkId <= 900718, where
\* networkId * 10^10 + serviceId * 10^5 + eventId is below 2^53.
C12_InjectiveBelowTwo53 ==
  [][(/\ op.name = "getProgramId" /\ op'.name = "getProgramId"
      /\ op.args[1] <= 900718 /\ op'.args[1] <= 900718) =>
       (op.args = op'.args <=> op.ret = op'.ret)]_vars

\* getProgramId(32736, 1024, 40085) returned 327360102440085
C12_Witness ==
  /\ op.name = "getProgramId"
  /\ op.args = <<32736, 1024, 40085>>
  /\ op.ret = <<3, 2, 7, 3, 6, 0, 1, 0, 2, 4, 4, 0, 0, 8, 5>>

\* C13: get(id) returns the first member in store order whose id is id,
\* and null when there is none; exists(id) is true exactly when a member
\* has that id.
C13_GetExists ==
  /\ [][op'.name = "get" =>
          LET id == op'.args[1]
              hits == {k \in 1..Len(items) : Id(items[k]) = id}
          IN IF hits = {}
             THEN op'.ret = <<Null>>
             ELSE \E k \in hits : /\ op'.ret = <<items[k]>>
                                   /\ \A j \in hits : k <= j]_vars
  /\ [][op'.name = "exists" =>
          op'.ret = <<\E k \in 1..Len(items) : Id(items[k]) = op'.args[1]>>]_vars

\* get(1) returned instance 4, the member with id 1, which is not the first
\* element of items
C13_Witness ==
  /\ op.name = "get"
  /\ op.args = <<1>>
  /\ op.ret = <<4>>
  /\ Len(items) >= 2
  /\ items[1] # 4

\* C20: get, exists, findByServiceId, findConflicts and findByQuery leave
\* items, the save timer and the GC timer as they were.
C20_ReadsChangeNothing ==
  [][op'.name \in {"get", "exists", "findByServiceId", "findConflicts", "findByQuery"} =>
       UNCHANGED <<items, saveTimers, saveTimerId, gcTimers, gcQueue, saved>>]_vars

\* findByServiceId(3) returned a proper part of a store of two or more
\* entries, with a save timer pending
C20_Witness ==
  /\ op.name = "findByServiceId"
  /\ op.args = <<3>>
  /\ op.ret = <<3>>
  /\ Len(items) >= 2
  /\ saveTimers # <<>>

\* C14: at every moment either one GC timer is armed and no sweep is
\* queued, or no GC timer is armed and one sweep is queued; a sweep that
\* completes arms the next GC timer, also when it removed nothing.
C14_OneGcPending ==
  /\ [](Len(gcTimers) + gcQueue = 1)
  /\ [][op'.name = "sweep" =>
          /\ gcQueue' = 0
          /\ gcTimers' = <<now + programGCInterval>>]_vars

\* a sweep that removed nothing has armed the next GC timer
C14_Witness ==
  /\ op.name = "sweep"
  /\ op.args = <<0>>
  /\ op.pre >= 1
  /\ gcTimers = <<now + programGCInterval>>
  /\ gcQueue = 0

\* C17: the firing of the GC timer only queues the sweep: items and the
\* save timer stay as they are; of the timers and the queue only the sweep
\* changes items, and it tests the items and the clock of the moment it runs:
\* what it removes was a member and is expired then, and the first member
\* that is expired then is removed.
C17_SweepRunsFromQueue ==
  /\ [][op'.name = "_gc" =>
          /\ UNCHANGED <<items, saveTimers, saveTimerId>>
          /\ gcQueue' = gcQueue + 1]_vars
  /\ [][items' # items => op'.name \in {"add", "remove", "itemRemove", "sweep"}]_vars
  /\ [][op'.name = "sweep" =>
          LET exp == {k \in 1..Len(items) : now > EndOf(items[k])}
          IN /\ Range(items') \subseteq Range(items)
             /\ \A e \in Range(items) \ Range(items') : now > EndOf(e)
             /\ \A k \in exp : (\A j \in exp : k <= j) => items[k] \notin Range(items')]_vars

\* the sweep queued at 4000 ran at 5000, after the write of <<instance 4>>
\* and no call in between, and removed instance 4, which ends at 4000
C17_Witness ==
  /\ op.name = "sweep"
  /\ op.args = <<1>>
  /\ now = 5000
  /\ EndOf(4) = 4000
  /\ saved = <<Data[4]>>
  /\ burst = 1
  /\ items = <<>>

\* C18: the count of a sweep is the number of entries that left items in
\* it; a sweep with count zero changes neither items nor the save timer.
C18_SweepCount ==
  [][op'.name = "sweep" =>
       /\ op'.args[1] = Len(items) - Len(items')
       /\ op'.args[1] = Cardinality(Range(items) \ Range(items'))
       /\ (op'.args[1] = 0 => UNCHANGED <<items, saveTimers, saveTimerId>>)]_vars

\* a sweep over three entries removed two of them
C18_Witness ==
  /\ op.name = "sweep"
  /\ op.args = <<2>>
  /\ op.pre = 3
  /\ Len(items) = 1

\* C19: a step that changes items either appends one new entry after all
\* members or removes entries and leaves the others in their order; remove
\* and the entry's self-removal remove the one targeted instance.
C19_InsertionOrder ==
  [][items' # items =>
       \/ /\ op'.name = "add"
          /\ items' = Append(items, op'.args[1])
          /\ op'.args[1] \notin Range(items)
       \/ /\ op'.name \in {"remove", "itemRemove"}
          /\ items' = Without(items, op'.args[1])
          /\ Len(items') = Len(items) - 1
       \/ /\ op'.name = "sweep"
          /\ items' = SelectSeq(items, LAMBDA x : x \in Range(items'))]_vars

\* remove(2) took the middle entry out of <<3, 2, 4>>, which was persisted
\* before and not changed since
C19_Witness ==
  /\ op.name = "remove"
  /\ op.args = <<2>>
  /\ saved = <<Data[3], Data[2], Data[4]>>
  /\ burst = 1
  /\ items = <<3, 4>>

\* C15: an entry that is a member after its end is eventually no member
\* any more: if no caller removes it, a GC sweep does.
C15_ExpiredEventuallyRemoved ==
  \A e \in Entries :
    (e \in Range(items) /\ now > EndOf(e)) ~> (e \notin Range(items))

\* a sweep removed the second of two expired entries that an earlier sweep
\* had passed over: it ran with the clock past MaxTime's deadlines
C15_Witness ==
  /\ op.name = "sweep"
  /\ op.args = <<1>>
  /\ op.pre = 1
  /\ items = <<>>
  /\ now >= MaxTime

\* no caller is at work: the last step was a timer, a task or the clock
CallersQuiet == op.name \notin {"add", "remove", "save"}

Persisted == saveTimers = <<>> /\ saved = RecordsOf(items)

\* C16: a step that changes the membership (add of a new id, remove of a
\* member, removal by a GC sweep) leaves one save timer pending, due
\* SaveDelay later; whenever no save timer is pending the persisted
\* snapshot is items.map(data); and once the callers' add, remove and save
\* calls cease, the pending timer fires and the snapshot stays equal to
\* items.map(data).
C16_ChangesReachDisk ==
  /\ [][items' # items => (saveTimers' = <<now' + SaveDelay>>
                           /\ saveTimerId' = now' + SaveDelay)]_vars
  /\ [](saveTimers = <<>> => saved = RecordsOf(items))
  /\ (<>[]CallersQuiet => <>[]Persisted)

\* past MaxTime a save timer that two or more requests had restarted fired
\* and wrote the snapshot of a store the sweeps had emptied
C16_Witness ==
  /\ op.name = "_save"
  /\ op.args = <<2>>
  /\ now >= MaxTime
  /\ items = <<>>
  /\ Persisted
====
